---- MODULE Spec2Model ----
(***************************************************************************)
(* Run orchestration core of the content pipeline backend:                 *)
(*   services/run_state.py       RunState, RunStateManager                 *)
(*   services/pipeline_runner.py PipelineRunner                            *)
(*   api/v1/pipeline.py          the three HTTP handlers                   *)
(*                                                                         *)
(* The program is a single asyncio event loop.  A coroutine only gives up  *)
(* the loop at an await that really suspends: asyncio.to_thread (a stage   *)
(* executor running on a worker thread), queue.get() on an empty queue,    *)
(* and the yield of the streaming generator.  Acquiring the manager's lock *)
(* (never held across a suspension) and queue.put() on the unbounded queue *)
(* never suspend, so the code between two suspensions is one step here.    *)
(* The manager's methods are operators from registry to registry; the      *)
(* actions compose them in the order the code calls them.                  *)
(***************************************************************************)
EXTENDS Integers, Sequences, FiniteSets, TLC

\* Bounds of the model: the runs submitted and the streaming connections
\* opened under Spec, and under StreamSpec.
MaxRuns == 2
MaxSubs == 1
StreamRuns == 1
StreamSubs == 2

RunNames == {"demo"}

\* Python's None where a mapping, a message or a response is expected, and
\* where a str is expected.
None == <<>>
NoneStr == "None"

VARIABLES
    runs,   \* RunStateManager._runs : run_id -> RunState
    tasks,  \* one execute_with_tracking background task per created run
    subs,   \* the event_generator of each streaming connection
    calls   \* a direct caller of the manager: its last call and its last poll

vars == <<runs, tasks, subs, calls>>

-----------------------------------------------------------------------------
(* schemas/pipeline.py and the module constants of run_state.py *)

PIPELINE_STAGE_ORDER ==
    <<"ingest", "narrative", "voiceover", "editing", "packaging", "analytics", "completed">>

PipelineStage == {PIPELINE_STAGE_ORDER[i] : i \in DOMAIN PIPELINE_STAGE_ORDER}

PipelineRunStatus == {"queued", "running", "completed", "error"}

\* _execute with the narrative and voiceover calls in the wrong order.
ExecutedStages_swapped ==
    <<"ingest", "voiceover", "narrative", "editing", "packaging", "analytics">>

\* The stages _execute hands to _run_stage, in call order.
ExecutedStages == SubSeq(PIPELINE_STAGE_ORDER, 1, Len(PIPELINE_STAGE_ORDER) - 1)

StagePosition(stage) == CHOOSE i \in DOMAIN PIPELINE_STAGE_ORDER : PIPELINE_STAGE_ORDER[i] = stage

PipelineStageSnapshot(stage, status, detail, payload) ==
    [stage |-> stage, status |-> status, detail |-> detail, payload |-> payload]

PipelineRunResponse(run_name, stages, outputs) ==
    [run_name |-> run_name, stages |-> stages, outputs |-> outputs]

PipelineRunStatusResponse(run_id, run_name, status, stages, outputs) ==
    [run_id |-> run_id, run_name |-> run_name, status |-> status,
     stages |-> stages, outputs |-> outputs]

\* dict() : the empty outputs bundle of a fresh RunState.
EmptyDict == [k \in {} |-> None]

-----------------------------------------------------------------------------
(* asyncio.Queue, unbounded and FIFO.  items holds everything ever put, in *)
(* put order; taken counts the get() calls that returned, so the queue's   *)
(* content is the part of items after the first taken entries.             *)

NewQueue == [items |-> <<>>, taken |-> 0]

QueuePut(q, item) == [q EXCEPT !.items = Append(@, item)]

QueuePending(q) == SubSeq(q.items, q.taken + 1, Len(q.items))

QueueEmpty(q) == q.taken = Len(q.items)

QueueFront(q) == q.items[q.taken + 1]

QueueGet(q) == [q EXCEPT !.taken = @ + 1]

-----------------------------------------------------------------------------
(* RunState *)

RunState(run_id, run_name, stages, queue) ==
    [run_id |-> run_id, run_name |-> run_name, request |-> [run_name |-> run_name],
     status |-> "queued", stages |-> stages, outputs |-> EmptyDict, queue |-> queue]

RECURSIVE OrderedSnapshots(_, _)
OrderedSnapshots(stages, i) ==
    IF i > Len(PIPELINE_STAGE_ORDER) THEN <<>>
    ELSE (IF PIPELINE_STAGE_ORDER[i] \in DOMAIN stages
            THEN <<stages[PIPELINE_STAGE_ORDER[i]]>> ELSE <<>>)
         \o OrderedSnapshots(stages, i + 1)

stage_snapshots(state) == OrderedSnapshots(state.stages, 1)

-----------------------------------------------------------------------------
(* RunStateManager *)

\* f"data: {json.dumps(payload)}\n\n"
_serialize_event(payload) == <<"data: ", payload, "\n\n">>

\* A seeding that leaves out the completed marker.
InitialStages_without_marker ==
    [stage \in {ExecutedStages[i] : i \in DOMAIN ExecutedStages} |->
        PipelineStageSnapshot(stage, "queued", "Awaiting execution", None)]

InitialStages ==
    [stage \in PipelineStage |->
        PipelineStageSnapshot(stage, "queued", "Awaiting execution", None)]

\* create_run that puts the init event on the channel of every run.
create_run_broadcasts(rs, run_id, run_name) ==
    LET state == RunState(run_id, run_name, InitialStages, NewQueue)
        init  == _serialize_event([event |-> "init", run_id |-> run_id,
                                  run_name |-> run_name,
                                  stages |-> stage_snapshots(state)])
        all   == (run_id :> state) @@ rs
    IN  [r \in DOMAIN all |-> [all[r] EXCEPT !.queue = QueuePut(@, init)]]

\* create_run that registers the record and enqueues no init event.
create_run_without_init(rs, run_id, run_name) ==
    (run_id :> RunState(run_id, run_name, InitialStages, NewQueue)) @@ rs

create_run(rs, run_id, run_name) ==
    LET state == RunState(run_id, run_name, InitialStages, NewQueue)
        init  == _serialize_event([event |-> "init", run_id |-> run_id,
                                  run_name |-> run_name,
                                  stages |-> stage_snapshots(state)])
    IN  (run_id :> [state EXCEPT !.queue = QueuePut(@, init)]) @@ rs

\* json.dumps of an event: it raises TypeError on a value that is not JSON.
\* A sanitized stage payload and an outputs bundle carry, as .json, whether
\* every value in them is one json.dumps accepts.
SnapshotSerializable(snapshot) ==
    snapshot.payload = None \/ snapshot.payload.json

ResponseSerializable(response) ==
    /\ \A i \in DOMAIN response.stages : SnapshotSerializable(response.stages[i])
    /\ response.outputs.json

\* mark_run_started that makes a record for a run it does not find.
mark_run_started_creates(rs, run_id) ==
    LET found == IF run_id \in DOMAIN rs THEN rs ELSE create_run(rs, run_id, "demo")
        s1    == [found EXCEPT ![run_id].status = "running"]
    IN  [s1 EXCEPT ![run_id].queue = QueuePut(@, _serialize_event(
            [event |-> "run", run_id |-> run_id, status |-> s1[run_id].status]))]

mark_run_started(rs, run_id) ==
    IF run_id \notin DOMAIN rs THEN rs
    ELSE LET s1 == [rs EXCEPT ![run_id].status = "running"]
         IN  [s1 EXCEPT ![run_id].queue = QueuePut(@, _serialize_event(
                 [event |-> "run", run_id |-> run_id, status |-> s1[run_id].status]))]

\* update_stage stores the snapshot, then serializes and enqueues the event:
\* when the serialization raises, the snapshot is stored and nothing is put.
update_stage_raises(rs, run_id, stage, status, detail, payload) ==
    /\ run_id \in DOMAIN rs
    /\ ~SnapshotSerializable(PipelineStageSnapshot(stage, status, detail, payload))

\* update_stage that publishes the stage event and stores nothing.
update_stage_unrecorded(rs, run_id, stage, status, detail, payload) ==
    IF run_id \notin DOMAIN rs THEN rs
    ELSE LET snapshot == PipelineStageSnapshot(stage, status, detail, payload)
         IN  IF SnapshotSerializable(snapshot)
               THEN [rs EXCEPT ![run_id].queue = QueuePut(@, _serialize_event(
                        [event |-> "stage", run_id |-> run_id, snapshot |-> snapshot]))]
               ELSE rs

\* update_stage on a stages mapping that every record shares.
update_stage_shared(rs, run_id, stage, status, detail, payload) ==
    IF run_id \notin DOMAIN rs THEN rs
    ELSE LET snapshot == PipelineStageSnapshot(stage, status, detail, payload)
             s1 == [r \in DOMAIN rs |-> [rs[r] EXCEPT !.stages = (stage :> snapshot) @@ @]]
         IN  IF SnapshotSerializable(snapshot)
               THEN [s1 EXCEPT ![run_id].queue = QueuePut(@, _serialize_event(
                        [event |-> "stage", run_id |-> run_id, snapshot |-> snapshot]))]
               ELSE s1

update_stage(rs, run_id, stage, status, detail, payload) ==
    IF run_id \notin DOMAIN rs THEN rs
    ELSE LET snapshot == PipelineStageSnapshot(stage, status, detail, payload)
             s1 == [rs EXCEPT ![run_id].stages = (stage :> snapshot) @@ @]
         IN  IF SnapshotSerializable(snapshot)
               THEN [s1 EXCEPT ![run_id].queue = QueuePut(@, _serialize_event(
                        [event |-> "stage", run_id |-> run_id, snapshot |-> snapshot]))]
               ELSE s1

\* mark_run_completed that closes the channel in a finally clause, also
\* when the serialization of the complete event has raised.
mark_run_completed_closes_always(rs, run_id, response) ==
    IF run_id \notin DOMAIN rs THEN rs
    ELSE LET s1 == [rs EXCEPT ![run_id].status = "completed"]
             s2 == [s1 EXCEPT ![run_id].outputs = response.outputs]
             s3 == [s2 EXCEPT ![run_id].queue = QueuePut(@, _serialize_event(
                       [event |-> "run", run_id |-> run_id, status |-> s2[run_id].status]))]
         IN  IF ResponseSerializable(response)
               THEN [s3 EXCEPT ![run_id].queue = QueuePut(QueuePut(@, _serialize_event(
                        [event |-> "complete", run_id |-> run_id, response |-> response])),
                        None)]
               ELSE [s3 EXCEPT ![run_id].queue = QueuePut(@, None)]

\* mark_run_completed that puts the sentinel before the complete event.
mark_run_completed_closes_first(rs, run_id, response) ==
    IF run_id \notin DOMAIN rs THEN rs
    ELSE LET s1 == [rs EXCEPT ![run_id].status = "completed"]
             s2 == [s1 EXCEPT ![run_id].outputs = response.outputs]
             s3 == [s2 EXCEPT ![run_id].queue = QueuePut(@, _serialize_event(
                       [event |-> "run", run_id |-> run_id, status |-> s2[run_id].status]))]
         IN  IF ResponseSerializable(response)
               THEN [s3 EXCEPT ![run_id].queue = QueuePut(QueuePut(@, None), _serialize_event(
                        [event |-> "complete", run_id |-> run_id, response |-> response]))]
               ELSE s3

\* mark_run_completed that stores the outputs and leaves the status as it is.
mark_run_completed_keeps_status(rs, run_id, response) ==
    IF run_id \notin DOMAIN rs THEN rs
    ELSE LET s2 == [rs EXCEPT ![run_id].outputs = response.outputs]
             s3 == [s2 EXCEPT ![run_id].queue = QueuePut(@, _serialize_event(
                       [event |-> "run", run_id |-> run_id, status |-> s2[run_id].status]))]
         IN  IF ResponseSerializable(response)
               THEN [s3 EXCEPT ![run_id].queue = QueuePut(QueuePut(@, _serialize_event(
                        [event |-> "complete", run_id |-> run_id, response |-> response])),
                        None)]
               ELSE s3

\* mark_run_completed sets status and outputs and enqueues the run event
\* before it serializes the complete event, which is where it can raise.
mark_run_completed_raises(rs, run_id, response) ==
    /\ run_id \in DOMAIN rs
    /\ ~ResponseSerializable(response)

mark_run_completed(rs, run_id, response) ==
    IF run_id \notin DOMAIN rs THEN rs
    ELSE LET s1 == [rs EXCEPT ![run_id].status = "completed"]
             s2 == [s1 EXCEPT ![run_id].outputs = response.outputs]
             s3 == [s2 EXCEPT ![run_id].queue = QueuePut(@, _serialize_event(
                       [event |-> "run", run_id |-> run_id, status |-> s2[run_id].status]))]
         IN  IF ResponseSerializable(response)
               THEN [s3 EXCEPT ![run_id].queue = QueuePut(QueuePut(@, _serialize_event(
                        [event |-> "complete", run_id |-> run_id, response |-> response])),
                        None)]
               ELSE s3

\* mark_run_failed without its final put of the sentinel.
mark_run_failed_keeps_open(rs, run_id, message) ==
    IF run_id \notin DOMAIN rs THEN rs
    ELSE LET s1 == [rs EXCEPT ![run_id].status = "error"]
             s2 == [s1 EXCEPT ![run_id].queue = QueuePut(@, _serialize_event(
                       [event |-> "run", run_id |-> run_id, status |-> s1[run_id].status]))]
         IN  [s2 EXCEPT ![run_id].queue = QueuePut(@, _serialize_event(
                 [event |-> "error", run_id |-> run_id, message |-> message]))]

mark_run_failed(rs, run_id, message) ==
    IF run_id \notin DOMAIN rs THEN rs
    ELSE LET s1 == [rs EXCEPT ![run_id].status = "error"]
             s2 == [s1 EXCEPT ![run_id].queue = QueuePut(@, _serialize_event(
                       [event |-> "run", run_id |-> run_id, status |-> s1[run_id].status]))]
         IN  [s2 EXCEPT ![run_id].queue = QueuePut(QueuePut(@, _serialize_event(
                 [event |-> "error", run_id |-> run_id, message |-> message])), None)]

\* RunStateManager._get_run
_get_run(rs, run_id) == IF run_id \in DOMAIN rs THEN rs[run_id] ELSE None

get_status(rs, run_id) ==
    IF run_id \notin DOMAIN rs THEN None
    ELSE LET state == rs[run_id]
         IN  PipelineRunStatusResponse(run_id, state.run_name, state.status,
                                       stage_snapshots(state), state.outputs)

get_queue(rs, run_id) == IF run_id \in DOMAIN rs THEN rs[run_id].queue ELSE None

-----------------------------------------------------------------------------
(* PipelineRunner.  The stage executors are external: what                 *)
(* asyncio.to_thread(executor) gives back is drawn from ExecutorResults.   *)
(*   raised : the executor raised, with str(exc) = message                 *)
(*   valid  : detail_builder and the PipelineStageSnapshot validation      *)
(*            accept the returned value                                    *)
(*   json   : every value left in the sanitized payload is JSON            *)

ExecutorResult(stage, raised, message, valid, json) ==
    [of |-> stage, raised |-> raised, message |-> message, valid |-> valid, json |-> json]

ExecutorResults(stage) ==
    { ExecutorResult(stage, TRUE, "executor failed", FALSE, FALSE),
      ExecutorResult(stage, FALSE, NoneStr, TRUE, TRUE),
      ExecutorResult(stage, FALSE, NoneStr, TRUE, FALSE),
      ExecutorResult(stage, FALSE, NoneStr, FALSE, TRUE) }

\* The sanitized copy of a returned value: a fresh mapping, never the value.
_sanitize_payload(result) == [sanitized |-> result.of, json |-> result.json]

detail_builder(stage) ==
    CASE stage = "ingest"    -> "Prepared curated clips."
      [] stage = "narrative" -> "Generated master script and dual-platform captions."
      [] stage = "voiceover" -> "Voiceover status."
      [] stage = "editing"   -> "Rendered Instagram and TikTok masters."
      [] stage = "packaging" -> "Packaged deliverables into metadata bundle."
      [] stage = "analytics" -> "Computed engagement heuristics."

\* str(RuntimeError(f"Stage {stage.value} failed"))
StageFailedMessage(stage) ==
    CASE stage = "ingest"    -> "Stage ingest failed"
      [] stage = "narrative" -> "Stage narrative failed"
      [] stage = "voiceover" -> "Stage voiceover failed"
      [] stage = "editing"   -> "Stage editing failed"
      [] stage = "packaging" -> "Stage packaging failed"
      [] stage = "analytics" -> "Stage analytics failed"

\* A _run_stage that starts its executor without publishing anything.
run_stage_begin_unannounced(rs, run_id, stage) == rs

\* _run_stage up to its await: the running snapshot is published.
run_stage_begin(rs, run_id, stage) ==
    update_stage(rs, run_id, stage, "running", NoneStr, None)

\* An except branch that raises without publishing the error snapshot.
run_stage_except_unrecorded(rs, snapshots, run_id, stage, text) ==
    [runs      |-> rs,
     snapshots |-> Append(snapshots, PipelineStageSnapshot(stage, "error", text, None)),
     exc       |-> StageFailedMessage(stage)]

\* An except branch that re-raises the executor's own exception.
run_stage_except_reraises(rs, snapshots, run_id, stage, text) ==
    [runs      |-> update_stage(rs, run_id, stage, "error", text, None),
     snapshots |-> Append(snapshots, PipelineStageSnapshot(stage, "error", text, None)),
     exc       |-> text]

\* An except branch that records the error snapshot and does not re-raise.
run_stage_except_swallows(rs, snapshots, run_id, stage, text) ==
    [runs      |-> update_stage(rs, run_id, stage, "error", text, None),
     snapshots |-> Append(snapshots, PipelineStageSnapshot(stage, "error", text, None)),
     exc       |-> NoneStr]

\* The except branch of _run_stage: exc is the RuntimeError it raises.
run_stage_except(rs, snapshots, run_id, stage, text) ==
    [runs      |-> update_stage(rs, run_id, stage, "error", text, None),
     snapshots |-> Append(snapshots, PipelineStageSnapshot(stage, "error", text, None)),
     exc       |-> StageFailedMessage(stage)]

\* _run_stage from the return of its await to its own return or raise.
run_stage_end(rs, snapshots, run_id, stage, result) ==
    IF result.raised
      THEN run_stage_except(rs, snapshots, run_id, stage, result.message)
    ELSE IF ~result.valid
      THEN run_stage_except(rs, snapshots, run_id, stage, "invalid stage result")
    ELSE LET detail   == detail_builder(stage)
             payload  == _sanitize_payload(result)
             snapshot == PipelineStageSnapshot(stage, "done", detail, payload)
             appended == Append(snapshots, snapshot)
             stored   == update_stage(rs, run_id, stage, "done", detail, payload)
         IN  IF update_stage_raises(rs, run_id, stage, "done", detail, payload)
               THEN run_stage_except(stored, appended, run_id, stage,
                                     "Object is not JSON serializable")
               ELSE [runs |-> stored, snapshots |-> appended, exc |-> NoneStr]

\* The outputs bundle _execute assembles from the raw stage results, or the
\* exception the assembly raises on a result it cannot read.
Outputs(json) ==
    [instagram |-> "instagram", tiktok |-> "tiktok", metadata |-> "metadata",
     analytics |-> "analytics", json |-> json]

Assemblies ==
    { [raised |-> TRUE,  message |-> "outputs assembly failed", outputs |-> EmptyDict],
      [raised |-> FALSE, message |-> NoneStr, outputs |-> Outputs(TRUE)],
      [raised |-> FALSE, message |-> NoneStr, outputs |-> Outputs(FALSE)] }

\* A tail whose failures are logged and never reach the handler.
execute_tail_swallows(rs, snapshots, run_id, run_name, assembly) ==
    LET completion_snapshot ==
            PipelineStageSnapshot("completed", "done", "Run finished", None)
        appended == Append(snapshots, completion_snapshot)
        marked   == update_stage(rs, run_id, "completed", "done",
                                 completion_snapshot.detail, None)
        response == PipelineRunResponse(run_name, appended, assembly.outputs)
    IN  IF assembly.raised
          THEN [runs |-> marked, snapshots |-> appended, exc |-> NoneStr]
        ELSE [runs |-> mark_run_completed(marked, run_id, response),
              snapshots |-> appended, exc |-> NoneStr]

\* _execute after the analytics stage has returned, and execute_with_tracking
\* up to its return or to the exception its handler receives.
execute_tail(rs, snapshots, run_id, run_name, assembly) ==
    LET completion_snapshot ==
            PipelineStageSnapshot("completed", "done", "Run finished", None)
        appended == Append(snapshots, completion_snapshot)
        marked   == update_stage(rs, run_id, "completed", "done",
                                 completion_snapshot.detail, None)
        response == PipelineRunResponse(run_name, appended, assembly.outputs)
    IN  IF assembly.raised
          THEN [runs |-> marked, snapshots |-> appended, exc |-> assembly.message]
        ELSE IF mark_run_completed_raises(marked, run_id, response)
          THEN [runs |-> mark_run_completed(marked, run_id, response),
                snapshots |-> appended, exc |-> "Object is not JSON serializable"]
        ELSE [runs |-> mark_run_completed(marked, run_id, response),
              snapshots |-> appended, exc |-> NoneStr]

LastExecuted == Len(ExecutedStages)

\* The locals of one execute_with_tracking coroutine: where it stands, the
\* stage it is in, the snapshots list, what the last executor gave back and
\* the exception on its way to the handler.
Task(pc, request, stage, snapshots, result, exc) ==
    [pc |-> pc, request |-> request, stage |-> stage, snapshots |-> snapshots,
     result |-> result, exc |-> exc]

\* A coroutine keeps the event loop from the raise of an exception to the
\* end of its handler: nothing else runs in between.
EventLoopFree == \A run_id \in DOMAIN tasks : tasks[run_id].pc # "except"

\* A registry lock that _get_run keeps while its caller awaits the executor.
LockedAwaits_executor == {"executor"}

\* The suspension points a coroutine can be at while it holds
\* RunStateManager._lock.  The lock is taken in create_run and in _get_run
\* only, and neither "async with self._lock" body contains an await: none.
LockedAwaits == {}

\* The coroutines that hold the registry lock while they are suspended, and
\* whether "async with self._lock" is entered without waiting.
LockHolders == {run_id \in DOMAIN tasks : tasks[run_id].pc \in LockedAwaits}

LockFree == LockHolders = {}

\* A connection that has not asked for a stream, and what is left of one
\* whose generator was cancelled.
IdleSub == [pc |-> "idle", run_id |-> 0, message |-> None,
            terminal |-> "none", early |-> FALSE]

\* No direct call made yet.
NoCalls == [last |-> None, poll |-> None]

InitWith(connections) ==
    /\ runs = <<>>
    /\ tasks = <<>>
    /\ subs = [s \in 1..connections |-> IdleSub]
    /\ calls = NoCalls

SubIds == DOMAIN subs

\* The run identifiers a client may ask for: those of the runs submitted
\* and one that never is; create_run draws a fresh uuid4 for each run.
RunIds == 1..(Cardinality(DOMAIN runs) + 1)

\* POST /run: create_run, then the background task is added.
trigger_pipeline_run ==
    /\ EventLoopFree
    /\ \E run_name \in RunNames :
         LET run_id == Cardinality(DOMAIN runs) + 1 IN
         /\ runs' = create_run(runs, run_id, run_name)
         /\ tasks' = (run_id :> Task("scheduled", [run_name |-> run_name], 0, <<>>,
                                     None, NoneStr)) @@ tasks
    /\ UNCHANGED <<subs, calls>>

\* execute_with_tracking that starts the first two stages at once.
execute_with_tracking_two_at_once(run_id) ==
    /\ EventLoopFree
    /\ tasks[run_id].pc = "scheduled"
    /\ runs' = run_stage_begin(
                  run_stage_begin(mark_run_started(runs, run_id), run_id, ExecutedStages[1]),
                  run_id, ExecutedStages[2])
    /\ tasks' = [tasks EXCEPT ![run_id].pc = "executor", ![run_id].stage = 1]
    /\ UNCHANGED <<subs, calls>>

\* execute_with_tracking on a queue of maxsize 1: its first put waits until
\* a consumer has taken what is pending.
execute_with_tracking_bounded(run_id) ==
    /\ EventLoopFree
    /\ tasks[run_id].pc = "scheduled"
    /\ QueueEmpty(runs[run_id].queue)
    /\ runs' = run_stage_begin(mark_run_started(runs, run_id), run_id, ExecutedStages[1])
    /\ tasks' = [tasks EXCEPT ![run_id].pc = "executor", ![run_id].stage = 1]
    /\ UNCHANGED <<subs, calls>>

\* execute_with_tracking from its start to the first await of a stage.
execute_with_tracking(run_id) ==
    /\ EventLoopFree
    /\ tasks[run_id].pc = "scheduled"
    /\ runs' = run_stage_begin(mark_run_started(runs, run_id), run_id, ExecutedStages[1])
    /\ tasks' = [tasks EXCEPT ![run_id].pc = "executor", ![run_id].stage = 1]
    /\ UNCHANGED <<subs, calls>>

\* An _execute that goes on to the next stage whatever the last one did.
StageDone_regardless(run_id) ==
    /\ EventLoopFree
    /\ tasks[run_id].pc = "executor"
    /\ tasks[run_id].stage < LastExecuted
    /\ \E result \in ExecutorResults(ExecutedStages[tasks[run_id].stage]) :
         LET t   == tasks[run_id]
             out == run_stage_end(runs, t.snapshots, run_id, ExecutedStages[t.stage], result)
         IN  /\ runs' = run_stage_begin(out.runs, run_id, ExecutedStages[t.stage + 1])
             /\ tasks' = [tasks EXCEPT ![run_id] =
                            Task("executor", t.request, t.stage + 1, out.snapshots,
                                 result, NoneStr)]
    /\ UNCHANGED <<subs, calls>>

\* A stage executor comes back and a later stage follows.
StageDone(run_id) ==
    /\ EventLoopFree
    /\ tasks[run_id].pc = "executor"
    /\ tasks[run_id].stage < LastExecuted
    /\ \E result \in ExecutorResults(ExecutedStages[tasks[run_id].stage]) :
         LET t   == tasks[run_id]
             out == run_stage_end(runs, t.snapshots, run_id, ExecutedStages[t.stage], result)
         IN  /\ out.exc = NoneStr
             /\ runs' = run_stage_begin(out.runs, run_id, ExecutedStages[t.stage + 1])
             /\ tasks' = [tasks EXCEPT ![run_id] =
                            Task("executor", t.request, t.stage + 1, out.snapshots,
                                 result, NoneStr)]
    /\ UNCHANGED <<subs, calls>>

\* A stage fails: _run_stage publishes the error snapshot and raises.
StageFailed(run_id) ==
    /\ EventLoopFree
    /\ tasks[run_id].pc = "executor"
    /\ \E result \in ExecutorResults(ExecutedStages[tasks[run_id].stage]) :
         LET t   == tasks[run_id]
             out == run_stage_end(runs, t.snapshots, run_id, ExecutedStages[t.stage], result)
         IN  /\ out.exc # NoneStr
             /\ runs' = out.runs
             /\ tasks' = [tasks EXCEPT ![run_id] =
                            Task("except", t.request, t.stage, out.snapshots,
                                 result, out.exc)]
    /\ UNCHANGED <<subs, calls>>

\* The last executor comes back: the rest of _execute, then
\* mark_run_completed, to the return or to the raise.
RunFinished(run_id) ==
    /\ EventLoopFree
    /\ tasks[run_id].pc = "executor"
    /\ tasks[run_id].stage = LastExecuted
    /\ \E result \in ExecutorResults(ExecutedStages[LastExecuted]), assembly \in Assemblies :
         LET t    == tasks[run_id]
             out  == run_stage_end(runs, t.snapshots, run_id, ExecutedStages[t.stage], result)
             tail == execute_tail(out.runs, out.snapshots, run_id,
                                  t.request.run_name, assembly)
         IN  /\ out.exc = NoneStr
             /\ runs' = tail.runs
             /\ tasks' = [tasks EXCEPT ![run_id] =
                            Task(IF tail.exc = NoneStr THEN "finished" ELSE "except",
                                 t.request, t.stage, tail.snapshots, result, tail.exc)]
    /\ UNCHANGED <<subs, calls>>

\* An except branch that calls mark_run_started where mark_run_failed belongs.
execute_with_tracking_except_restarts(run_id) ==
    /\ tasks[run_id].pc = "except"
    /\ runs' = mark_run_started(runs, run_id)
    /\ tasks' = [tasks EXCEPT ![run_id].pc = "finished"]
    /\ UNCHANGED <<subs, calls>>

\* The except branch of execute_with_tracking.
execute_with_tracking_except(run_id) ==
    /\ tasks[run_id].pc = "except"
    /\ runs' = mark_run_failed(runs, run_id, tasks[run_id].exc)
    /\ tasks' = [tasks EXCEPT ![run_id].pc = "finished"]
    /\ UNCHANGED <<subs, calls>>

\* GET /run/{run_id}/stream: 404 for an unknown run, else the generator is
\* handed the run's queue.
stream_pipeline_run(s) ==
    /\ EventLoopFree
    /\ subs[s].pc = "idle"
    /\ \A o \in SubIds : o < s => subs[o].pc # "idle"
    /\ \E run_id \in RunIds :
         subs' = [subs EXCEPT ![s] =
                    IF get_queue(runs, run_id) = None
                      THEN [@ EXCEPT !.pc = "not_found"]
                      ELSE [@ EXCEPT !.pc = "get", !.run_id = run_id,
                                     !.early = runs[run_id].status \in {"queued", "running"}]]
    /\ UNCHANGED <<runs, tasks, calls>>

EventKind(message) == message[2].event

\* One turn of event_generator's loop: queue.get() returns, and the message
\* is yielded unless it is the sentinel.
event_generator(s) ==
    /\ EventLoopFree
    /\ subs[s].pc = "get"
    /\ LET run_id  == subs[s].run_id
           queue   == runs[run_id].queue
       IN  /\ ~QueueEmpty(queue)
           /\ LET message == QueueFront(queue) IN
              subs' = [subs EXCEPT ![s] =
                         IF message = None
                           THEN [@ EXCEPT !.pc = "closed", !.message = message]
                           ELSE [@ EXCEPT !.message = message,
                                   !.terminal = IF EventKind(message) \in {"complete", "error"}
                                                  THEN EventKind(message) ELSE @]]
           /\ runs' = [runs EXCEPT ![run_id].queue = QueueGet(queue)]
    /\ UNCHANGED <<tasks, calls>>

\* The client drops the connection: the generator is cancelled.
Disconnect(s) ==
    /\ EventLoopFree
    /\ subs[s].pc = "get"
    /\ subs' = [subs EXCEPT ![s] = [IdleSub EXCEPT !.pc = "cancelled"]]
    /\ UNCHANGED <<runs, tasks, calls>>

Orchestrate(run_id) ==
    /\ run_id \in DOMAIN tasks
    /\ \/ execute_with_tracking(run_id)
       \/ StageDone(run_id)
       \/ StageFailed(run_id)
       \/ RunFinished(run_id)
       \/ execute_with_tracking_except(run_id)

Submit(limit) == Cardinality(DOMAIN runs) < limit /\ trigger_pipeline_run

Init == InitWith(MaxSubs)

Next ==
    \/ Submit(MaxRuns)
    \/ \E run_id \in DOMAIN tasks : execute_with_tracking(run_id)
    \/ \E run_id \in DOMAIN tasks : StageDone(run_id)
    \/ \E run_id \in DOMAIN tasks : StageFailed(run_id)
    \/ \E run_id \in DOMAIN tasks : RunFinished(run_id)
    \/ \E run_id \in DOMAIN tasks : execute_with_tracking_except(run_id)
    \/ \E s \in SubIds : stream_pipeline_run(s)
    \/ \E s \in SubIds : event_generator(s)
    \/ \E s \in SubIds : Disconnect(s)

Spec == Init /\ [][Next]_vars

\* Two connections on one run.
StreamInit == InitWith(StreamSubs)

StreamNext ==
    \/ Submit(StreamRuns)
    \/ \E run_id \in DOMAIN tasks : execute_with_tracking(run_id)
    \/ \E run_id \in DOMAIN tasks : StageDone(run_id)
    \/ \E run_id \in DOMAIN tasks : StageFailed(run_id)
    \/ \E run_id \in DOMAIN tasks : RunFinished(run_id)
    \/ \E run_id \in DOMAIN tasks : execute_with_tracking_except(run_id)
    \/ \E s \in SubIds : stream_pipeline_run(s)
    \/ \E s \in SubIds : event_generator(s)
    \/ \E s \in SubIds : Disconnect(s)

StreamSpec == StreamInit /\ [][StreamNext]_vars

\* The event loop runs every background task it was handed, and a stage
\* executor always comes back (it returns or it raises).
FairSpec == Spec /\ \A run_id \in 1..MaxRuns : WF_vars(Orchestrate(run_id))

-----------------------------------------------------------------------------
(* RunStateManager called method by method, as its public interface lets   *)
(* any caller do: in any order and with any run identifier.  The caller    *)
(* keeps its last call with what it returned, and its last status poll     *)
(* with the methods it has called on the polled run since.                 *)

\* Bounds of ManagerSpec: the runs created, and the channel length up to
\* which a run is still written to.
ApiRuns == 2
MaxEvents == 2

\* The identifiers a caller may pass: those create_run returned, and one
\* that it never returns.
ManagerRunIds == DOMAIN runs \cup {0}

Call(op, run_id, result, raised) ==
    [op |-> op, run_id |-> run_id, result |-> result, raised |-> raised]

\* A status poll: the run asked for, the response, whether update_stage
\* (updated) or another writing method (changed) was called on that run
\* since, and, when the poll before it asked for the same run, whether that
\* poll got the same response and what was called in between.
Poll(run_id, response, poll) ==
    [run_id |-> run_id, response |-> response, updated |-> FALSE, changed |-> FALSE,
     prior |-> IF poll # None /\ poll.run_id = run_id
                 THEN [same |-> poll.response = response,
                       updated |-> poll.updated, changed |-> poll.changed]
                 ELSE None]

\* The caller has called op on run_id: remembered if that is the polled run.
Touch(poll, op, run_id) ==
    IF poll # None /\ poll.run_id = run_id
      THEN [poll EXCEPT !.updated = @ \/ op = "update_stage",
                        !.changed = @ \/ op # "update_stage"]
      ELSE poll

\* The arguments update_stage is called with: the running snapshot of a
\* stage, and its done snapshot with a sanitized payload.
StageUpdates ==
    { PipelineStageSnapshot("ingest", "running", NoneStr, None) } \cup
    { PipelineStageSnapshot("ingest", "done", detail_builder("ingest"), _sanitize_payload(result)) :
        result \in {r \in ExecutorResults("ingest") : ~r.raised /\ r.valid} }

\* The responses mark_run_completed is called with.
Responses ==
    { PipelineRunResponse(run_name, <<>>, assembly.outputs) :
        run_name \in RunNames, assembly \in {a \in Assemblies : ~a.raised} }

Room(run_id) == run_id \in DOMAIN runs => Len(runs[run_id].queue.items) < MaxEvents

call_create_run ==
    /\ Cardinality(DOMAIN runs) < ApiRuns
    /\ \E run_name \in RunNames :
         LET run_id == Cardinality(DOMAIN runs) + 1 IN
         /\ runs' = create_run(runs, run_id, run_name)
         /\ calls' = [calls EXCEPT !.last = Call("create_run", run_id, run_id, FALSE)]
    /\ UNCHANGED <<tasks, subs>>

call_mark_run_started(run_id) ==
    /\ Room(run_id)
    /\ runs' = mark_run_started(runs, run_id)
    /\ calls' = [last |-> Call("mark_run_started", run_id, None, FALSE),
                 poll |-> Touch(calls.poll, "mark_run_started", run_id)]
    /\ UNCHANGED <<tasks, subs>>

call_update_stage(run_id) ==
    /\ Room(run_id)
    /\ \E u \in StageUpdates :
         /\ runs' = update_stage(runs, run_id, u.stage, u.status, u.detail, u.payload)
         /\ calls' = [last |-> Call("update_stage", run_id, None,
                                    update_stage_raises(runs, run_id, u.stage, u.status,
                                                        u.detail, u.payload)),
                      poll |-> Touch(calls.poll, "update_stage", run_id)]
    /\ UNCHANGED <<tasks, subs>>

call_mark_run_completed(run_id) ==
    /\ Room(run_id)
    /\ \E response \in Responses :
         /\ runs' = mark_run_completed(runs, run_id, response)
         /\ calls' = [last |-> Call("mark_run_completed", run_id, None,
                                    mark_run_completed_raises(runs, run_id, response)),
                      poll |-> Touch(calls.poll, "mark_run_completed", run_id)]
    /\ UNCHANGED <<tasks, subs>>

call_mark_run_failed(run_id) ==
    /\ Room(run_id)
    /\ runs' = mark_run_failed(runs, run_id, StageFailedMessage("ingest"))
    /\ calls' = [last |-> Call("mark_run_failed", run_id, None, FALSE),
                 poll |-> Touch(calls.poll, "mark_run_failed", run_id)]
    /\ UNCHANGED <<tasks, subs>>

\* GET /run/{run_id}: get_status, and 404 when it returns None.
get_pipeline_run_status(run_id) ==
    /\ EventLoopFree
    /\ LockFree
    /\ LET status == get_status(runs, run_id) IN
       calls' = [last |-> Call("get_status", run_id, status, FALSE) @@
                          [http |-> IF status = None THEN 404 ELSE 200],
                 poll |-> Poll(run_id, status, calls.poll)]
    /\ UNCHANGED <<runs, tasks, subs>>

\* A stream handler whose lookup makes the record it does not find.
call_get_queue_creates(run_id) ==
    /\ runs' = IF run_id \in DOMAIN runs THEN runs ELSE create_run(runs, run_id, "demo")
    /\ calls' = [calls EXCEPT !.last =
                    Call("get_queue", run_id, get_queue(runs, run_id), FALSE) @@
                    [http |-> IF get_queue(runs, run_id) = None THEN 404 ELSE 200]]
    /\ UNCHANGED <<tasks, subs>>

\* GET /run/{run_id}/stream up to the generator: get_queue, and 404 when it
\* returns None.
call_get_queue(run_id) ==
    /\ LET queue == get_queue(runs, run_id) IN
       calls' = [calls EXCEPT !.last =
                    Call("get_queue", run_id, queue, FALSE) @@
                    [http |-> IF queue = None THEN 404 ELSE 200]]
    /\ UNCHANGED <<runs, tasks, subs>>

ManagerInit == InitWith(0)

ManagerNext ==
    \/ call_create_run
    \/ \E run_id \in ManagerRunIds : call_mark_run_started(run_id)
    \/ \E run_id \in ManagerRunIds : call_update_stage(run_id)
    \/ \E run_id \in ManagerRunIds : call_mark_run_completed(run_id)
    \/ \E run_id \in ManagerRunIds : call_mark_run_failed(run_id)
    \/ \E run_id \in ManagerRunIds : get_pipeline_run_status(run_id)
    \/ \E run_id \in ManagerRunIds : call_get_queue(run_id)

ManagerSpec == ManagerInit /\ [][ManagerNext]_vars

-----------------------------------------------------------------------------
(* Paths in what a run publishes.  A str is the sequence of its path       *)
(* components, "/" first when it is absolute; the empty sequence is "" and  *)
(* also stands for None, which the code treats alike ("if not path").  A    *)
(* payload value carries its Python kind (str, float, NoneType, bool,      *)
(* list, dict) next to its content.                                        *)

\* settings.outputs_dir, by default str(BACKEND_ROOT / "outputs").
OutputsDir == <<"/", "srv", "backend", "outputs">>

\* Path(path).relative_to(root) does not raise ValueError.
IsRelativeTo(path, root) ==
    Len(path) >= Len(root) /\ SubSeq(path, 1, Len(root)) = root

_public_asset_path(path) ==
    IF path = <<>> THEN None
    ELSE IF ~IsRelativeTo(path, OutputsDir) THEN None
    ELSE <<"outputs">> \o (IF Len(path) = Len(OutputsDir) THEN <<".">>
                            ELSE SubSeq(path, Len(OutputsDir) + 1, Len(path)))

_rewrite_asset_path(value) ==
    LET public_path == _public_asset_path(value)
    IN  IF public_path # None THEN public_path ELSE value

Str(text) == [kind |-> "str", text |-> text]

\* Python's None as a payload value, and dict.get.
NoneValue == [kind |-> "NoneType", text |-> <<"None">>]

Get(mapping, key) == IF key \in DOMAIN mapping THEN mapping[key] ELSE NoneValue

\* A dict as an item of a list: entries is the mapping.
Dict(entries) == [kind |-> "dict", entries |-> entries]

\* isinstance(item, dict)
IsDict(item) == item.kind = "dict"

\* An assets branch that copies each mapping entry whole.
sanitized_assets_whole(value) == SelectSeq(value, IsDict)

\* The list the "assets" key of a payload is replaced by: the entries that
\* are dicts, each cut down to id, local_path and license.
RECURSIVE sanitized_assets(_)
sanitized_assets(value) ==
    IF value = <<>> THEN <<>>
    ELSE (IF IsDict(Head(value))
            THEN <<Dict([key \in {"id", "local_path", "license"} |->
                            Get(Head(value).entries, key)])>>
            ELSE <<>>)
         \o sanitized_assets(Tail(value))

\* The dict branch of _sanitize_payload: the "assets" list is cut down; of
\* the other values a str is rewritten, a number is kept and anything else
\* becomes str(value).
_sanitize_payload_dict(payload) ==
    [key \in DOMAIN payload |->
        IF key = "assets" THEN sanitized_assets(payload[key])
        ELSE IF payload[key].kind = "str" THEN Str(_rewrite_asset_path(payload[key].text))
        ELSE IF payload[key].kind = "float" THEN payload[key]
        ELSE Str(payload[key].text)]

\* PackagingService.package
package(run_name) ==
    LET bundle_dir    == OutputsDir \o <<run_name>>
        metadata_path == bundle_dir \o <<"metadata.json">>
    IN  [metadata_path |-> Str(metadata_path), bundle_dir |-> Str(bundle_dir)]

\* The outputs bundle of _execute: the video paths go through
\* _public_asset_path, the packaging result is passed on as it is.
outputs(video_payload, packaging_payload) ==
    [instagram |-> [video_path |-> _public_asset_path(video_payload.instagram_video.text),
                    caption |-> "instagram_caption"],
     tiktok    |-> [video_path |-> _public_asset_path(video_payload.tiktok_video.text),
                    caption |-> "tiktok_caption"],
     metadata  |-> packaging_payload,
     analytics |-> "analytics",
     json      |-> \A key \in DOMAIN packaging_payload :
                       packaging_payload[key].kind \in {"str", "float", "NoneType"}]

\* The strings and values the stage executors may hand back.
Strings ==
    { OutputsDir \o <<"demo", "metadata.json">>, OutputsDir \o <<"demo_instagram.mp4">>,
      OutputsDir, <<"/", "srv", "backend", "outputs_old", "demo.mp4">>,
      <<"/", "srv", "backend", "assets", "downloads", "clip.mp4">>,
      <<"outputs", "demo_tiktok.mp4">>, <<"generated">>, <<>> }

Values ==
    {Str(text) : text \in Strings} \cup
    {[kind |-> "NoneType", text |-> <<"None">>],
     [kind |-> "float", text |-> <<"0.5">>]}

\* The asset entries an ingest executor may hand back: AssetService's six
\* keys and one more, any of them present or missing, and entries that
\* are no dict at all; and the lists of them.
MaxAssets == 2

AssetKeys == {"id", "local_path", "keywords", "license", "source_url", "placeholder", "score"}

AssetValue(key) ==
    CASE key = "id"          -> Str(<<"clip-1">>)
      [] key = "local_path"  -> Str(<<"/", "srv", "backend", "assets", "downloads", "clip.mp4">>)
      [] key = "keywords"    -> [kind |-> "list", text |-> <<"city", "night">>]
      [] key = "license"     -> Str(<<"CC0">>)
      [] key = "source_url"  -> Str(<<"https:", "example.org", "clip.mp4">>)
      [] key = "placeholder" -> [kind |-> "bool", text |-> <<"False">>]
      [] key = "score"       -> [kind |-> "float", text |-> <<"0.5">>]

AssetItems ==
    {Dict([key \in keys |-> AssetValue(key)]) : keys \in SUBSET AssetKeys} \cup
    {Str(<<"clip.mp4">>), NoneValue}

AssetLists == UNION {[1..n -> AssetItems] : n \in 0..MaxAssets}

IngestPayloads ==
    {[assets |-> assets,
      assets_dir |-> Str(<<"/", "srv", "backend", "assets", "downloads">>)] :
        assets \in AssetLists}

StagePayloads == [{"voiceover_path", "status"} -> Values]

VideoPayloads == [{"instagram_video", "tiktok_video"} -> {Str(text) : text \in Strings}]

PackagingPayloads ==
    {package(run_name) : run_name \in RunNames} \cup
    [{"metadata_path", "bundle_dir"} ->
        {Str(<<"outputs", "demo", "metadata.json">>), Str(<<"generated">>)}]

\* _run_stage's success path on a fresh run: the sanitized payload is
\* stored and published as the stage's done snapshot.
publish_stage_payload ==
    /\ runs = <<>>
    /\ \E run_name \in RunNames, stage \in {"voiceover", "editing"}, payload \in StagePayloads :
         runs' = update_stage(create_run(<<>>, 1, run_name), 1, stage, "done",
                              detail_builder(stage),
                              [sanitized |-> _sanitize_payload_dict(payload), json |-> TRUE])
    /\ UNCHANGED <<tasks, subs, calls>>

\* _run_stage's success path for the ingest stage on a fresh run: result is
\* what the executor returned, the sanitized copy is stored and published.
publish_ingest_payload ==
    /\ runs = <<>>
    /\ \E run_name \in RunNames, payload \in IngestPayloads :
         /\ runs' = update_stage(create_run(<<>>, 1, run_name), 1, "ingest", "done",
                                 detail_builder("ingest"),
                                 [sanitized |-> _sanitize_payload_dict(payload), json |-> TRUE])
         /\ tasks' = (1 :> Task("executor", [run_name |-> run_name], 1, <<>>,
                                payload, NoneStr))
    /\ UNCHANGED <<subs, calls>>

\* The end of _execute and mark_run_completed on a fresh run.
publish_outputs ==
    /\ runs = <<>>
    /\ \E run_name \in RunNames, video_payload \in VideoPayloads,
          packaging_payload \in PackagingPayloads :
         runs' = mark_run_completed(create_run(<<>>, 1, run_name), 1,
                    PipelineRunResponse(run_name, <<>>,
                                        outputs(video_payload, packaging_payload)))
    /\ UNCHANGED <<tasks, subs, calls>>

PathInit == InitWith(0)

PathNext == publish_stage_payload \/ publish_ingest_payload \/ publish_outputs

PathSpec == PathInit /\ [][PathNext]_vars

-----------------------------------------------------------------------------
(* What the claims read. *)

\* Everything ever put on a run's channel, in put order.
Items(run_id) == runs[run_id].queue.items

\* The kind of a channel item: the event name, or "close" for the sentinel.
ItemKind(item) == IF item = None THEN "close" ELSE EventKind(item)

TerminalStatus == {"completed", "error"}

Positions(run_id, kinds) ==
    {i \in DOMAIN Items(run_id) : ItemKind(Items(run_id)[i]) \in kinds}

Closed(run_id) == Positions(run_id, {"close"}) # {}

Finished(run_id) == tasks[run_id].pc = "finished"

\* The snapshots of a run's stage events, in put order.
RECURSIVE StageSnapshotsOf(_)
StageSnapshotsOf(items) ==
    IF items = <<>> THEN <<>>
    ELSE (IF ItemKind(Head(items)) = "stage" THEN <<Head(items)[2].snapshot>> ELSE <<>>)
         \o StageSnapshotsOf(Tail(items))

StageEvents(run_id) == StageSnapshotsOf(Items(run_id))

-----------------------------------------------------------------------------
\* C1: every tracked run whose executors come back ends with a terminal
\* status and the close sentinel on its channel, and the orchestrator never
\* stops while the status is queued or running or the channel is open.
C1_TrackedRunTerminates ==
    /\ [](\A run_id \in DOMAIN tasks :
            Finished(run_id) =>
                runs[run_id].status \in TerminalStatus /\ Closed(run_id))
    /\ \A run_id \in 1..MaxRuns :
            (run_id \in DOMAIN tasks) ~>
                (/\ run_id \in DOMAIN tasks
                 /\ Finished(run_id)
                 /\ runs[run_id].status \in TerminalStatus
                 /\ Closed(run_id))

C1_Witness ==
    \E run_id \in DOMAIN tasks :
        /\ Finished(run_id)
        /\ tasks[run_id].result.raised
        /\ runs[run_id].status = "error"
        /\ Closed(run_id)

\* C2: each run's channel carries at most one terminal event (complete or
\* error, never both, never two), exactly one once the orchestrator has
\* stopped, and the item put right after it is the close sentinel.
C2_OneTerminalEvent ==
    \A run_id \in DOMAIN runs :
        LET terminal == Positions(run_id, {"complete", "error"}) IN
        /\ Cardinality(terminal) <= 1
        /\ \A i \in terminal :
              i < Len(Items(run_id)) /\ Items(run_id)[i + 1] = None
        /\ Finished(run_id) => Cardinality(terminal) = 1

C2_Witness ==
    \E run_id \in DOMAIN runs :
        /\ Finished(run_id)
        /\ Positions(run_id, {"complete"}) # {}
        /\ Items(run_id)[Len(Items(run_id))] = None

\* C3: the status a status query returns only moves along
\* queued -> running -> {completed, error}: a terminal status is never
\* followed by queued or running, and running is never followed by queued.
C3_StatusMonotonic ==
    [][\A run_id \in DOMAIN runs :
         LET before == get_status(runs, run_id).status
             after  == get_status(runs', run_id).status
         IN  /\ before \in TerminalStatus => after \in TerminalStatus
             /\ before = "running" => after # "queued"]_vars

C3_Witness ==
    \E run_id \in DOMAIN runs :
        /\ get_status(runs, run_id).status = "error"
        /\ Positions(run_id, {"run"}) # {}
        /\ \E i \in Positions(run_id, {"run"}) : Items(run_id)[i][2].status = "completed"

\* C4: once a run's status is completed or error it never changes again,
\* on any path through execute_with_tracking.
C4_TerminalStatusFinal ==
    [][\A run_id \in DOMAIN runs :
         runs[run_id].status \in TerminalStatus =>
             runs'[run_id].status = runs[run_id].status]_vars

\* C5: when the executor of the stage at position k raises, no stage event
\* for a later position is ever on the channel, and the run ends in error.
C5_NoStageAfterFailure ==
    \A run_id \in DOMAIN tasks :
        LET t == tasks[run_id] IN
        (t.result # None /\ t.result.raised) =>
            /\ \A i \in DOMAIN StageEvents(run_id) :
                  StagePosition(StageEvents(run_id)[i].stage) <= StagePosition(t.result.of)
            /\ Finished(run_id) => runs[run_id].status = "error"

C5_Witness ==
    \E run_id \in DOMAIN tasks :
        /\ Finished(run_id)
        /\ tasks[run_id].result.raised
        /\ tasks[run_id].result.of = "editing"
        /\ runs[run_id].status = "error"
        /\ runs[run_id].stages["editing"].status = "error"

\* C6: the stage events of a run name the stages in declared order, from
\* ingest on and without skipping one, and a stage never has two running
\* events in a row.
C6_StageEventOrder ==
    \A run_id \in DOMAIN runs :
        LET ev == StageEvents(run_id) IN
        /\ ev # <<>> => StagePosition(ev[1].stage) = 1
        /\ \A i \in 1..(Len(ev) - 1) :
              /\ StagePosition(ev[i].stage) <= StagePosition(ev[i + 1].stage)
              /\ StagePosition(ev[i + 1].stage) <= StagePosition(ev[i].stage) + 1
              /\ ~(/\ ev[i].stage = ev[i + 1].stage
                   /\ ev[i].status = "running"
                   /\ ev[i + 1].status = "running")

C6_Witness ==
    \E run_id \in DOMAIN runs :
        LET ev == StageEvents(run_id) IN
        /\ Len(ev) = 2 * Len(ExecutedStages) + 1
        /\ ev[Len(ev)].stage = "completed"

\* C7: a run's channel always holds a prefix of init, run(running), the
\* stage events, run(completed or error), the terminal event, the sentinel;
\* and a single subscriber is handed the items in the order they were put.
C7_ChannelOrder ==
    \A run_id \in DOMAIN runs :
        LET items == Items(run_id)
            ItemPhase(item) ==
                CASE ItemKind(item) = "init"  -> "init"
                  [] ItemKind(item) = "run"   ->
                        IF item[2].status \in TerminalStatus THEN "ended" ELSE "started"
                  [] ItemKind(item) = "stage" -> "stage"
                  [] ItemKind(item) \in {"complete", "error"} -> "terminal"
                  [] ItemKind(item) = "close" -> "close"
            PhaseOrder ==
                { <<"init", "started">>, <<"started", "stage">>, <<"started", "ended">>,
                  <<"stage", "stage">>, <<"stage", "ended">>, <<"ended", "terminal">>,
                  <<"terminal", "close">> }
        IN
        /\ items # <<>> /\ ItemPhase(items[1]) = "init"
        /\ \A i \in 1..(Len(items) - 1) :
              <<ItemPhase(items[i]), ItemPhase(items[i + 1])>> \in PhaseOrder
        /\ \A s \in SubIds :
              (/\ subs[s].pc \in {"get", "closed"}
               /\ subs[s].run_id = run_id
               /\ runs[run_id].queue.taken > 0)
              => subs[s].message = items[runs[run_id].queue.taken]

\* C8: the stage list a status query returns has one entry per declared
\* stage, in declared order, from creation on and after any stage update.
C8_AllStagesListed ==
    \A run_id \in DOMAIN runs :
        LET listed == get_status(runs, run_id).stages IN
        /\ Len(listed) = Len(PIPELINE_STAGE_ORDER)
        /\ \A i \in DOMAIN listed : listed[i].stage = PIPELINE_STAGE_ORDER[i]

C8_Witness ==
    \E run_id \in DOMAIN runs :
        LET listed == get_status(runs, run_id).stages IN
        /\ Len(listed) = Len(PIPELINE_STAGE_ORDER)
        /\ listed[1].status = "done"
        /\ listed[Len(listed)].status = "done"

\* C9: a run whose status is queued or running has an empty outputs bundle.
C9_OutputsEmptyUntilTerminal ==
    \A run_id \in DOMAIN runs :
        runs[run_id].status \in {"queued", "running"} =>
            get_status(runs, run_id).outputs = EmptyDict

C9_Witness ==
    \E run_id \in DOMAIN runs :
        /\ runs[run_id].status = "completed"
        /\ get_status(runs, run_id).outputs # EmptyDict

\* C10: two subscribers that attached to the same run before it ended both
\* read the same terminal event and both read the sentinel: once the run is
\* over and its channel is drained, both generators have terminated.
C10_BothSubscribersSeeTheEnd ==
    \A a, b \in SubIds :
        (/\ a # b
         /\ subs[a].pc \in {"get", "closed"} /\ subs[b].pc \in {"get", "closed"}
         /\ subs[a].early /\ subs[b].early
         /\ subs[a].run_id = subs[b].run_id
         /\ Finished(subs[a].run_id)
         /\ QueueEmpty(runs[subs[a].run_id].queue))
        => /\ subs[a].pc = "closed" /\ subs[b].pc = "closed"
           /\ subs[a].terminal # "none"
           /\ subs[a].terminal = subs[b].terminal

\* C11: a run whose six executors all succeeded (each real stage was
\* recorded done) ends with status completed, all seven stage snapshots
\* done and a non-empty outputs bundle.
C11_SuccessfulRunCompletes ==
    \A run_id \in DOMAIN tasks :
        (/\ Finished(run_id)
         /\ \A i \in DOMAIN ExecutedStages :
               runs[run_id].stages[ExecutedStages[i]].status = "done")
        => LET status == get_status(runs, run_id) IN
           /\ status.status = "completed"
           /\ \A i \in DOMAIN status.stages : status.stages[i].status = "done"
           /\ status.outputs # EmptyDict

\* C12: when the executor of the stage at position k raised, the final
\* status snapshot has status error, every stage before k done, stage k
\* error and every stage after k, the completed marker included, queued.
C12_FailedStageSnapshot ==
    \A run_id \in DOMAIN tasks :
        LET t == tasks[run_id] IN
        (Finished(run_id) /\ t.result # None /\ t.result.raised) =>
            LET status == get_status(runs, run_id)
                k      == StagePosition(t.result.of)
            IN  /\ status.status = "error"
                /\ \A i \in DOMAIN status.stages :
                      status.stages[i].status =
                          IF i < k THEN "done" ELSE IF i = k THEN "error" ELSE "queued"

C12_Witness ==
    \E run_id \in DOMAIN tasks :
        LET status == get_status(runs, run_id) IN
        /\ Finished(run_id)
        /\ tasks[run_id].result.raised
        /\ tasks[run_id].result.of = "editing"
        /\ status.stages[StagePosition("voiceover")].status = "done"
        /\ status.stages[StagePosition("editing")].status = "error"
        /\ status.stages[StagePosition("completed")].status = "queued"

\* C13: get_status and get_queue called with a run identifier that was
\* never created return None (HTTP 404) without raising, and the call
\* creates no record and changes no record or channel.
C13_UnknownRunNotFound ==
    [][(/\ calls'.last # None
        /\ calls'.last.op \in {"get_status", "get_queue"}
        /\ calls'.last.run_id \notin DOMAIN runs)
       => (/\ calls'.last.result = None
           /\ ~calls'.last.raised
           /\ calls'.last.http = 404
           /\ runs' = runs)]_vars

C13_Witness ==
    /\ calls.last # None
    /\ calls.last.op = "get_status"
    /\ calls.last.run_id \notin DOMAIN runs
    /\ calls.last.http = 404
    /\ DOMAIN runs # {}

\* C14: update_stage, mark_run_started, mark_run_completed and
\* mark_run_failed called with a run identifier that is not in the registry
\* return without error and leave the registry, every record and every
\* channel as they were.
C14_UnknownRunNoOp ==
    [][(/\ calls'.last # None
        /\ calls'.last.op \in {"update_stage", "mark_run_started",
                                "mark_run_completed", "mark_run_failed"}
        /\ calls'.last.run_id \notin DOMAIN runs)
       => (~calls'.last.raised /\ runs' = runs)]_vars

C14_Witness ==
    /\ calls.last # None
    /\ calls.last.op = "mark_run_completed"
    /\ calls.last.run_id \notin DOMAIN runs
    /\ ~calls.last.raised
    /\ \E run_id \in DOMAIN runs : runs[run_id].status = "running"

\* C15 as stated: two status polls of a run with no update_stage on that
\* run between them get identical snapshots, whatever else was called.
C15_StatusQueryIdempotent ==
    (/\ calls.poll # None
     /\ calls.poll.prior # None
     /\ ~calls.poll.prior.updated)
    => calls.poll.prior.same

\* C15 amended: two status polls of a run with no update_stage,
\* mark_run_started, mark_run_completed or mark_run_failed on that run
\* between them get identical snapshots, whatever was called on other runs.
C15_StatusQueryStable ==
    (/\ calls.poll # None
     /\ calls.poll.prior # None
     /\ ~calls.poll.prior.updated
     /\ ~calls.poll.prior.changed)
    => calls.poll.prior.same

C15_Witness ==
    /\ calls.poll # None
    /\ calls.poll.prior # None
    /\ ~calls.poll.prior.updated /\ ~calls.poll.prior.changed
    /\ calls.poll.prior.same
    /\ calls.last.op = "get_status"
    /\ calls.poll.run_id \in DOMAIN runs
    /\ \E other \in DOMAIN runs \ {calls.poll.run_id} : runs[other].status = "error"

\* C16: consumers never influence a run.  A run that has not ended always
\* has its next orchestration step enabled, whatever is pending on its
\* channel and whoever reads it; and two ended runs whose executors gave the
\* same outcomes have the same status, stage snapshots and outputs and were
\* sent the same events, whether their channels were read to the end, in
\* part, or not at all.
C16_ConsumersDoNotInfluence ==
    /\ \A run_id \in DOMAIN tasks :
          (~Finished(run_id) /\ (EventLoopFree \/ tasks[run_id].pc = "except"))
          => ENABLED Orchestrate(run_id)
    /\ \A a, b \in DOMAIN tasks :
          (/\ Finished(a) /\ Finished(b)
           /\ tasks[a].snapshots = tasks[b].snapshots
           /\ tasks[a].exc = tasks[b].exc)
          => /\ runs[a].status = runs[b].status
             /\ stage_snapshots(runs[a]) = stage_snapshots(runs[b])
             /\ runs[a].outputs = runs[b].outputs
             /\ Len(Items(a)) = Len(Items(b))

C16_Witness ==
    \E a, b \in DOMAIN tasks, s \in SubIds :
        /\ a # b
        /\ Finished(a) /\ Finished(b)
        /\ tasks[a].snapshots = tasks[b].snapshots
        /\ tasks[a].exc = tasks[b].exc
        /\ subs[s].pc = "closed" /\ subs[s].run_id = a
        /\ QueueEmpty(runs[a].queue)
        /\ runs[b].queue.taken = 0
        /\ runs[a].status = "completed"

\* C17: no string a run exposes (a stage snapshot payload, the outputs
\* bundle of the status query, the response of the complete event) is an
\* absolute path under the outputs root.
C17_NoAbsoluteOutputPath ==
    \A run_id \in DOMAIN runs :
        LET status    == get_status(runs, run_id)
            InAssets(assets) ==
                UNION {{assets[i].entries[key].text :
                          key \in {k \in DOMAIN assets[i].entries :
                                      assets[i].entries[k].kind = "str"}} :
                       i \in DOMAIN assets}
            InPayload(snapshot) ==
                IF snapshot.payload = None THEN {}
                ELSE LET sanitized == snapshot.payload.sanitized IN
                     {sanitized[key].text :
                        key \in {k \in DOMAIN sanitized \ {"assets"} :
                                    sanitized[k].kind = "str"}}
                     \cup (IF "assets" \in DOMAIN sanitized
                              THEN InAssets(sanitized.assets) ELSE {})
            InOutputs(bundle) ==
                IF bundle = EmptyDict THEN {}
                ELSE {bundle.instagram.video_path, bundle.tiktok.video_path} \cup
                     {bundle.metadata[key].text : key \in DOMAIN bundle.metadata}
            exposed ==
                UNION {InPayload(status.stages[i]) : i \in DOMAIN status.stages}
                \cup InOutputs(status.outputs)
                \cup UNION {InPayload(Items(run_id)[i][2].snapshot) :
                               i \in Positions(run_id, {"stage"})}
                \cup UNION {InOutputs(Items(run_id)[i][2].response.outputs) :
                               i \in Positions(run_id, {"complete"})}
        IN  \A text \in exposed :
               ~(text # <<>> /\ text[1] = "/" /\ IsRelativeTo(text, OutputsDir))

\* C18: a run's channel is closed once: the sentinel is on it at most
\* once, only when the status is completed or error, and nothing is put
\* after it.
C18_ClosedOnce ==
    \A run_id \in DOMAIN runs :
        LET close == Positions(run_id, {"close"}) IN
        /\ Cardinality(close) <= 1
        /\ close # {} => /\ runs[run_id].status \in TerminalStatus
                         /\ close = {Len(Items(run_id))}

C18_Witness ==
    \E run_id \in DOMAIN runs :
        /\ Cardinality(Positions(run_id, {"close"})) = 1
        /\ Cardinality(Positions(run_id, {"run"})) = 3
        /\ Positions(run_id, {"error"}) # {}

\* C19: a run that is in the registry has all seven stages in its record
\* and the init event, listing the seven stages as queued, first on its
\* channel; until its orchestrator starts all seven stages are queued.
C19_CreateRunAtomic ==
    \A run_id \in DOMAIN runs :
        /\ DOMAIN runs[run_id].stages = PipelineStage
        /\ Items(run_id) # <<>>
        /\ ItemKind(Items(run_id)[1]) = "init"
        /\ LET init == Items(run_id)[1][2] IN
           /\ init.run_id = run_id
           /\ Len(init.stages) = Len(PIPELINE_STAGE_ORDER)
           /\ \A i \in DOMAIN init.stages :
                 /\ init.stages[i].stage = PIPELINE_STAGE_ORDER[i]
                 /\ init.stages[i].status = "queued"
        /\ tasks[run_id].pc = "scheduled" =>
              \A stage \in PipelineStage : runs[run_id].stages[stage].status = "queued"

C19_Witness ==
    \E run_id \in DOMAIN runs, s \in SubIds :
        /\ tasks[run_id].pc = "scheduled"
        /\ get_queue(runs, run_id) # None
        /\ subs[s].pc = "get" /\ subs[s].run_id = run_id
        /\ subs[s].message # None
        /\ EventKind(subs[s].message) = "init"

\* C20: when a stage executor raises, the channel carries one error stage
\* event, for that stage and with the executor's message as detail; the
\* exception that reaches execute_with_tracking names the stage, and the
\* run's one error event carries that message.
C20_StageTaggedFailure ==
    \A run_id \in DOMAIN tasks :
        LET t == tasks[run_id] IN
        (t.result # None /\ t.result.raised /\ t.pc \in {"except", "finished"}) =>
            LET stage  == t.result.of
                failed == {i \in DOMAIN StageEvents(run_id) :
                             StageEvents(run_id)[i].status = "error"}
                errors == Positions(run_id, {"error"})
            IN  /\ Cardinality(failed) = 1
                /\ \A i \in failed :
                      /\ StageEvents(run_id)[i].stage = stage
                      /\ StageEvents(run_id)[i].detail = t.result.message
                /\ runs[run_id].stages[stage].status = "error"
                /\ runs[run_id].stages[stage].detail = t.result.message
                /\ t.exc = StageFailedMessage(stage)
                /\ Finished(run_id) =>
                      /\ Cardinality(errors) = 1
                      /\ \A i \in errors :
                            Items(run_id)[i][2].message = StageFailedMessage(stage)

C20_Witness ==
    \E run_id \in DOMAIN tasks :
        /\ Finished(run_id)
        /\ tasks[run_id].result.raised
        /\ tasks[run_id].result.of = "narrative"
        /\ \E i \in Positions(run_id, {"error"}) :
              Items(run_id)[i][2].message = "Stage narrative failed"

\* The orchestrator of a run got past its six stages and did not get to the
\* end of mark_run_completed: the failure was raised outside _run_stage.
OrchestrationDefect(run_id) ==
    LET t == tasks[run_id] IN
    /\ t.snapshots # <<>>
    /\ t.snapshots[Len(t.snapshots)].stage = "completed"
    /\ Positions(run_id, {"complete"}) = {}

\* C21: a failure raised outside the per-stage try block (in the outputs
\* assembly or inside mark_run_completed) ends that run in status error with
\* one error event carrying the failure's message and the sentinel last on the
\* channel, and the steps that raise and handle it change no other run.
C21_DefectFailsOnlyThatRun ==
    /\ [](\A run_id \in DOMAIN tasks :
            (Finished(run_id) /\ OrchestrationDefect(run_id)) =>
                /\ runs[run_id].status = "error"
                /\ Cardinality(Positions(run_id, {"error"})) = 1
                /\ \A i \in Positions(run_id, {"error"}) :
                      /\ Items(run_id)[i][2].message = tasks[run_id].exc
                      /\ Items(run_id)[i][2].message \in
                            {"outputs assembly failed", "Object is not JSON serializable"}
                /\ Items(run_id)[Len(Items(run_id))] = None)
    /\ [][\A a \in DOMAIN tasks :
            (OrchestrationDefect(a)' /\ tasks'[a] # tasks[a]) =>
                \A b \in DOMAIN tasks \ {a} :
                    runs'[b] = runs[b] /\ tasks'[b] = tasks[b]]_vars

C21_Witness ==
    \E a, b \in DOMAIN tasks :
        /\ a # b
        /\ Finished(a) /\ OrchestrationDefect(a)
        /\ tasks[a].exc = "Object is not JSON serializable"
        /\ runs[a].status = "error"
        /\ runs[a].outputs # EmptyDict
        /\ runs[b].status = "running"

\* The statuses of the stage events a run's channel was sent for one stage,
\* in put order.
RECURSIVE StatusesOf(_, _)
StatusesOf(snapshots, stage) ==
    IF snapshots = <<>> THEN <<>>
    ELSE (IF Head(snapshots).stage = stage THEN <<Head(snapshots).status>> ELSE <<>>)
         \o StatusesOf(Tail(snapshots), stage)

\* C22: each real stage that is attempted gets a running event before its
\* executor is invoked (while the executor runs it is the stage's only
\* event), and once the executor is back exactly one done or error event
\* follows it; a stage not attempted has no event.  The completed marker is
\* only ever published as done, once, as the last stage event and after the
\* done event of analytics.
C22_RunningThenOneOutcome ==
    \A run_id \in DOMAIN tasks :
        LET t  == tasks[run_id]
            ev == StageEvents(run_id)
        IN
        /\ \A k \in DOMAIN ExecutedStages :
              LET statuses == StatusesOf(ev, ExecutedStages[k]) IN
              /\ t.stage < k => statuses = <<>>
              /\ (t.stage = k /\ t.pc = "executor") => statuses = <<"running">>
              /\ (t.stage > k \/ (t.stage = k /\ t.pc # "executor")) =>
                    statuses \in {<<"running", "done">>, <<"running", "error">>}
        /\ StatusesOf(ev, "completed") \in {<<>>, <<"done">>}
        /\ StatusesOf(ev, "completed") = <<"done">> =>
              /\ ev[Len(ev)].stage = "completed"
              /\ StatusesOf(ev, "analytics") = <<"running", "done">>

C22_Witness ==
    \E a, b \in DOMAIN tasks :
        /\ tasks[a].pc = "executor" /\ tasks[a].stage = 3
        /\ StatusesOf(StageEvents(a), "voiceover") = <<"running">>
        /\ StatusesOf(StageEvents(a), "narrative") = <<"running", "done">>
        /\ Finished(b)
        /\ StatusesOf(StageEvents(b), "completed") = <<"done">>
        /\ StatusesOf(StageEvents(b), "ingest") = <<"running", "done">>

C24_AssetsReducedToThreeKeys ==
    \A run_id \in DOMAIN tasks :
        LET returned  == SelectSeq(tasks[run_id].result.assets, IsDict)
            Reduced(assets) ==
                /\ Len(assets) = Len(returned)
                /\ \A i \in DOMAIN assets :
                      /\ IsDict(assets[i])
                      /\ DOMAIN assets[i].entries = {"id", "local_path", "license"}
                      /\ \A key \in DOMAIN assets[i].entries :
                            assets[i].entries[key] = Get(returned[i].entries, key)
        IN  /\ Reduced(runs[run_id].stages["ingest"].payload.sanitized.assets)
            /\ \A i \in Positions(run_id, {"stage"}) :
                  Reduced(Items(run_id)[i][2].snapshot.payload.sanitized.assets)

C24_Witness ==
    \E run_id \in DOMAIN tasks :
        LET returned == tasks[run_id].result.assets
            assets   == runs[run_id].stages["ingest"].payload.sanitized.assets
        IN  /\ Len(returned) = 2
            /\ ~IsDict(returned[1])
            /\ IsDict(returned[2])
            /\ DOMAIN returned[2].entries = AssetKeys \ {"license"}
            /\ Len(assets) = 1
            /\ assets[1].entries.license = NoneValue
            /\ assets[1].entries.id = AssetValue("id")

\* C25: every subscriber of a run that has ended gets to the end of its
\* stream, also one that attached after the run had reached its terminal
\* status.  Once a run has ended nothing is put on its channel any more, so
\* such a generator, while it waits, still has the sentinel ahead of it: it
\* never waits on the emptied channel.
C25_LateSubscriberEnds ==
    \A s \in SubIds :
        (/\ subs[s].pc = "get"
         /\ ~subs[s].early
         /\ Finished(subs[s].run_id)
         /\ Closed(subs[s].run_id))
        => ~QueueEmpty(runs[subs[s].run_id].queue)

\* C26: a run's status, stage snapshots, outputs and channel contents
\* change only in the steps of its own orchestrator: creating another run and
\* every step of another run's orchestrator leave them as they were, however
\* the two orchestrators interleave; and every event on a run's channel
\* carries that run's identifier.
C26_RunsIsolated ==
    /\ [][\A b \in DOMAIN runs :
            tasks'[b] = tasks[b] =>
                /\ runs'[b].status = runs[b].status
                /\ runs'[b].stages = runs[b].stages
                /\ runs'[b].outputs = runs[b].outputs
                /\ Items(b)' = Items(b)]_vars
    /\ [](\A b \in DOMAIN runs :
            \A i \in DOMAIN Items(b) :
                Items(b)[i] # None => Items(b)[i][2].run_id = b)

C26_Witness ==
    \E a, b \in DOMAIN tasks :
        /\ a < b
        /\ Finished(a) /\ runs[a].status = "error"
        /\ runs[a].stages["narrative"].status = "error"
        /\ tasks[b].pc = "executor" /\ tasks[b].stage = 3
        /\ runs[b].status = "running"
        /\ runs[b].stages["narrative"].status = "done"
        /\ runs[b].outputs = EmptyDict
        /\ Len(Items(b)) = 7

\* C27: within a run the executors are invoked one after the other in
\* declared order, each at most once.  A step that invokes an executor
\* invokes that of the stage right after the last one invoked (ingest
\* first), whose executor has returned without raising in that very step
\* and whose snapshot is done; and while an executor is in flight it is the
\* only stage of its run that is running.
C27_ExecutorsSequential ==
    /\ [][\A run_id \in DOMAIN tasks' :
            LET after == tasks'[run_id] IN
            (/\ after.pc = "executor"
             /\ (run_id \notin DOMAIN tasks \/ tasks[run_id] # after))
            => /\ run_id \in DOMAIN tasks
               /\ LET before == tasks[run_id] IN
                  /\ after.stage = before.stage + 1
                  /\ ExecutedStages[after.stage] = PIPELINE_STAGE_ORDER[after.stage]
                  /\ before.stage = 0 => before.pc = "scheduled"
                  /\ before.stage > 0 =>
                        /\ before.pc = "executor"
                        /\ after.result.of = ExecutedStages[before.stage]
                        /\ ~after.result.raised
                        /\ runs'[run_id].stages[ExecutedStages[before.stage]].status = "done"]_vars
    /\ [](\A run_id \in DOMAIN tasks :
            tasks[run_id].pc = "executor" =>
                {stage \in PipelineStage : runs[run_id].stages[stage].status = "running"}
                    = {ExecutedStages[tasks[run_id].stage]})

C27_Witness ==
    \E run_id \in DOMAIN tasks :
        /\ tasks[run_id].pc = "executor"
        /\ tasks[run_id].stage = LastExecuted
        /\ tasks[run_id].result.of = "packaging"
        /\ \A k \in 1..(LastExecuted - 1) :
              runs[run_id].stages[ExecutedStages[k]].status = "done"
        /\ runs[run_id].stages["analytics"].status = "running"

\* C28: the stage statuses of a run, read in declared order from its status
\* snapshot, are some done, then at most one running or error, then only
\* queued.  At most one stage is running, none is once the run's status is
\* completed or error, and no stage is done after one that is not.
C28_StageStatusShape ==
    \A run_id \in DOMAIN runs :
        LET status == get_status(runs, run_id)
            listed == status.stages
            done   == {i \in DOMAIN listed : listed[i].status = "done"}
        IN  /\ \A i \in DOMAIN listed :
                  listed[i].status \in {"queued", "running", "done", "error"}
            /\ \A i \in done : \A j \in 1..i : j \in done
            /\ \A i \in DOMAIN listed :
                  i > Cardinality(done) + 1 => listed[i].status = "queued"
            /\ Cardinality({i \in DOMAIN listed : listed[i].status = "running"}) <= 1
            /\ status.status \in TerminalStatus =>
                  \A i \in DOMAIN listed : listed[i].status # "running"

C28_Witness ==
    \E a, b \in DOMAIN runs :
        LET A == get_status(runs, a).stages
            B == get_status(runs, b).stages
        IN  /\ A[1].status = "done" /\ A[2].status = "done" /\ A[3].status = "error"
            /\ A[4].status = "queued" /\ A[7].status = "queued"
            /\ runs[a].status = "error"
            /\ B[3].status = "done" /\ B[4].status = "running" /\ B[5].status = "queued"
            /\ runs[b].status = "running"

\* C29: while the snapshot of the completed marker is done the run's status
\* is running or completed, and a run whose status is error has no done
\* event of the completed marker on its channel.
C29_MarkerDoneNeverError ==
    \A run_id \in DOMAIN runs :
        /\ runs[run_id].stages["completed"].status = "done" =>
              get_status(runs, run_id).status \in {"running", "completed"}
        /\ get_status(runs, run_id).status = "error" =>
              StatusesOf(StageEvents(run_id), "completed") = <<>>

\* C30: what is on a run's channel, or was read from it, is already in the
\* run's status snapshot.  For a stage event the listed stage is in that
\* status or past it (a done or error snapshot is the listed one); for a run
\* event the status is the event's or a later one; with the complete event
\* the status is completed and the outputs are the response's; with the
\* error event the status is error.
C30_RecordBeforeEvent ==
    \A run_id \in DOMAIN runs :
        LET status == get_status(runs, run_id)
            Later(now, then) ==
                CASE then = "queued"  -> TRUE
                  [] then = "running" -> now \in {"running", "done", "completed", "error"}
                  [] then = "done"    -> now = "done"
                  [] then = "completed" -> now \in {"completed", "error"}
                  [] then = "error"   -> now = "error"
            Reflected(item) ==
                CASE ItemKind(item) = "stage" ->
                        LET snapshot == item[2].snapshot
                            listed   == status.stages[StagePosition(snapshot.stage)]
                        IN  /\ Later(listed.status, snapshot.status)
                            /\ snapshot.status \in {"done", "error"} => listed = snapshot
                  [] ItemKind(item) = "run" -> Later(status.status, item[2].status)
                  [] ItemKind(item) = "complete" ->
                        /\ status.status = "completed"
                        /\ status.outputs = item[2].response.outputs
                  [] ItemKind(item) = "error" -> status.status = "error"
                  [] OTHER -> TRUE
        IN  /\ \A i \in DOMAIN Items(run_id) : Reflected(Items(run_id)[i])
            /\ \A s \in SubIds :
                  (subs[s].pc \in {"get", "closed"} /\ subs[s].run_id = run_id)
                  => Reflected(subs[s].message)

C30_Witness ==
    \E a, b \in DOMAIN runs, s \in SubIds :
        /\ a # b
        /\ subs[s].pc = "get" /\ subs[s].run_id = a
        /\ subs[s].message # None
        /\ EventKind(subs[s].message) = "complete"
        /\ get_status(runs, a).status = "completed"
        /\ get_status(runs, a).outputs = subs[s].message[2].response.outputs
        /\ Positions(b, {"run"}) # {}
        /\ \E i \in Positions(b, {"run"}) : Items(b)[i][2].status = "completed"
        /\ get_status(runs, b).status = "error"

====
